---- MODULE Spec2Model ----
(***************************************************************************)
(* Model of utils/tour/generate_tour.py: the quaternion/vector helpers,    *)
(* the geometry functions (hotspot yaw, distance, north offset), the scene *)
(* id derivation, the directory scan and the tour-graph construction.      *)
(*                                                                         *)
(* Numbers.  The program computes on IEEE-754 doubles.  Every coordinate   *)
(* and quaternion component used here is a dyadic rational of small        *)
(* magnitude, on which +, - and * are exact; what remains of the floating  *)
(* point semantics is the sign of zero, which math.atan2 observes.  A      *)
(* number is therefore a record [n, e, s]: the value n / 2^e and the sign  *)
(* bit s.  Angles are whole degrees (multiples of 45 on the lattice        *)
(* directions used), kept as integers.  The two square roots of the        *)
(* program are kept symbolic: a normalised vector is num / sqrt(mag2) and  *)
(* a distance is sqrt(radicand).                                           *)
(***************************************************************************)
EXTENDS Integers, Sequences, FiniteSets, TLC

\* Largest number of scene records in one run.
MaxScenes == 3

-----------------------------------------------------------------------------
\* Floating-point numbers with a signed zero.

RECURSIVE Pow2(_)
Pow2(k) == IF k = 0 THEN 1 ELSE 2 * Pow2(k - 1)

RECURSIVE Reduce(_, _)
Reduce(n, e) == IF e > 0 /\ n % 2 = 0 THEN Reduce(n \div 2, e - 1) ELSE <<n, e>>

\* The double n / 2^e; zs is the sign bit to use when the value is zero.
FMk(n, e, zs) ==
    LET r == Reduce(n, e)
    IN  [n |-> r[1], e |-> r[2], s |-> IF r[1] = 0 THEN zs ELSE r[1] < 0]

\* float(k) for an integer k, and k/2.
Flt(k) == FMk(k, 0, FALSE)
Half(k) == FMk(k, 1, FALSE)

\* Unary minus: flips the sign bit, also of a zero.
FNeg(a) == [n |-> -a.n, e |-> a.e, s |-> ~a.s]

\* a * b: the sign of the product is the exclusive or of the signs.
FMul(a, b) == FMk(a.n * b.n, a.e + b.e, a.s # b.s)

\* a + b (round to nearest): an exact zero sum is -0 only if both are -0.
FAdd(a, b) ==
    LET e == IF a.e > b.e THEN a.e ELSE b.e
    IN  FMk(a.n * Pow2(e - a.e) + b.n * Pow2(e - b.e), e, a.s /\ b.s)

\* a - b is a + (-b).
FSub(a, b) == FAdd(a, FNeg(b))

\* Numeric comparison (== on floats: 0.0 == -0.0).
FEq(a, b) == a.n * Pow2(b.e) = b.n * Pow2(a.e)
FAbsLess(a, b) ==
    (IF a.n < 0 THEN -a.n ELSE a.n) * Pow2(b.e) < (IF b.n < 0 THEN -b.n ELSE b.n) * Pow2(a.e)
VecEq(u, v) == Len(u) = Len(v) /\ \A i \in 1..Len(u) : FEq(u[i], v[i])

-----------------------------------------------------------------------------
\* Quaternion helpers.  A quaternion is <<w, x, y, z>>, a vector <<x, y, z>>.

\* Faulty variant: the z component keeps its sign.
quat_conjugate_keeps_z(q) == <<q[1], FNeg(q[2]), FNeg(q[3]), q[4]>>
quat_conjugate(q) == <<q[1], FNeg(q[2]), FNeg(q[3]), FNeg(q[4])>>

\* Hamilton product; each component is evaluated left to right.
quat_multiply(a, b) ==
    << FSub(FSub(FSub(FMul(a[1], b[1]), FMul(a[2], b[2])), FMul(a[3], b[3])), FMul(a[4], b[4])),
       FSub(FAdd(FAdd(FMul(a[1], b[2]), FMul(a[2], b[1])), FMul(a[3], b[4])), FMul(a[4], b[3])),
       FAdd(FAdd(FSub(FMul(a[1], b[3]), FMul(a[2], b[4])), FMul(a[3], b[1])), FMul(a[4], b[2])),
       FAdd(FSub(FAdd(FMul(a[1], b[4]), FMul(a[2], b[3])), FMul(a[3], b[2])), FMul(a[4], b[1])) >>

quat_rotate(q, v) ==
    LET v_quat == <<Flt(0), v[1], v[2], v[3]>>
        q_conj == quat_conjugate(q)
        result == quat_multiply(quat_multiply(q, v_quat), q_conj)
    IN  <<result[2], result[3], result[4]>>

\* The squared magnitude v[0]**2 + v[1]**2 + v[2]**2.
SumSq(v) == FAdd(FAdd(FMul(v[1], v[1]), FMul(v[2], v[2])), FMul(v[3], v[3]))

\* normalize_vec: the vector num / sqrt(mag2).  A magnitude below 1e-10 is,
\* on this domain (nonzero magnitudes are at least 2^-e), a magnitude of 0,
\* and the result is then the literal [0.0, 0.0, 0.0].  Dividing by the
\* positive magnitude keeps the sign bit of every component.
normalize_vec(v) ==
    LET mag2 == SumSq(v)
    IN  IF mag2.n = 0
        THEN [num |-> <<Flt(0), Flt(0), Flt(0)>>, mag2 |-> Flt(1)]
        ELSE [num |-> v, mag2 |-> mag2]

\* math.degrees(math.atan2(y, x)) on the directions whose angle is a whole
\* number of degrees: the axes, the diagonals and the four signed zeros.
Atan2Deg(y, x) ==
    CASE y.n = 0 /\ (x.n > 0 \/ (x.n = 0 /\ ~x.s)) -> 0
      [] y.n = 0 /\ (x.n < 0 \/ (x.n = 0 /\ x.s)) -> IF y.s THEN -180 ELSE 180
      [] y.n # 0 /\ x.n = 0 -> IF y.n > 0 THEN 90 ELSE -90
      [] y.n > 0 /\ x.n > 0 /\ ~FAbsLess(x, y) /\ ~FAbsLess(y, x) -> 45
      [] y.n > 0 /\ x.n < 0 /\ ~FAbsLess(x, y) /\ ~FAbsLess(y, x) -> 135
      [] y.n < 0 /\ x.n > 0 /\ ~FAbsLess(x, y) /\ ~FAbsLess(y, x) -> -45
      [] y.n < 0 /\ x.n < 0 /\ ~FAbsLess(x, y) /\ ~FAbsLess(y, x) -> -135

-----------------------------------------------------------------------------
\* Geometry.

PosDiff(pano_a, pano_b) ==
    [i \in 1..3 |-> FSub(pano_b.position[i], pano_a.position[i])]

\* The yaw before normalisation: degrees(atan2(...)) + yaw_offset.  The
\* rotation is applied to the numerator of the normalised direction; its
\* positive denominator changes neither a sign nor the angle.
RawYaw(pano_a, pano_b, yaw_offset) ==
    LET diff == PosDiff(pano_a, pano_b)
        d_world == normalize_vec(diff)
        q_inv == quat_conjugate(pano_a.orientation)
        d_local == quat_rotate(q_inv, d_world.num)
    IN  Atan2Deg(d_local[1], d_local[2]) + yaw_offset

\* Faulty variant: the normalisation of line 139 is left out.
compute_hotspot_yaw_unnormalised(pano_a, pano_b, yaw_offset) ==
    RawYaw(pano_a, pano_b, yaw_offset)

compute_hotspot_yaw(pano_a, pano_b, yaw_offset) ==
    LET yaw_deg == RawYaw(pano_a, pano_b, yaw_offset)
    IN  ((yaw_deg + 180) % 360) - 180

\* sqrt(sum(d**2 for d in diff)), as the radicand; sum() starts from 0.
compute_distance(pano_a, pano_b) ==
    LET diff == PosDiff(pano_a, pano_b)
    IN  [sqrt_of |-> FAdd(FAdd(FAdd(Flt(0), FMul(diff[1], diff[1])),
                               FMul(diff[2], diff[2])), FMul(diff[3], diff[3]))]

compute_north_offset(pano) ==
    LET forward_world == quat_rotate(pano.orientation, <<Flt(0), Flt(1), Flt(0)>>)
    IN  Atan2Deg(forward_world[1], forward_world[2])

-----------------------------------------------------------------------------
\* Names and scene ids.  A string is a sequence of one-character strings.

Lowercase == {"a", "b"}
Uppercase == {"A", "B"}
Digits == {"1"}
IsAlnum(c) == c \in Lowercase \cup Uppercase \cup Digits

\* str.lower() on one character.
LowerChar(c) == CASE c = "A" -> "a" [] c = "B" -> "b" [] OTHER -> c

\* ord() of the characters used in file names.
Ord(c) ==
    CASE c = " " -> 32 [] c = "-" -> 45 [] c = "." -> 46 [] c = "1" -> 49
      [] c = "A" -> 65 [] c = "B" -> 66 [] c = "_" -> 95 [] c = "a" -> 97
      [] c = "b" -> 98 [] c = "g" -> 103 [] c = "j" -> 106 [] c = "p" -> 112
      [] c = "t" -> 116 [] c = "x" -> 120

RECURSIVE SkipNonAlnum(_)
SkipNonAlnum(s) ==
    IF s # <<>> /\ ~IsAlnum(Head(s)) THEN SkipNonAlnum(Tail(s)) ELSE s

\* re.sub(r'[^a-zA-Z0-9]+', '_', name): every maximal run of characters
\* that are not alphanumeric becomes one underscore.
RECURSIVE SubNonAlnum(_)
SubNonAlnum(s) ==
    IF s = <<>> THEN <<>>
    ELSE IF IsAlnum(Head(s)) THEN <<Head(s)>> \o SubNonAlnum(Tail(s))
    ELSE <<"_">> \o SubNonAlnum(SkipNonAlnum(Tail(s)))

RECURSIVE LStrip(_, _)
LStrip(s, c) == IF s # <<>> /\ Head(s) = c THEN LStrip(Tail(s), c) ELSE s
RECURSIVE RStrip(_, _)
RStrip(s, c) ==
    IF s # <<>> /\ s[Len(s)] = c THEN RStrip(SubSeq(s, 1, Len(s) - 1), c) ELSE s

\* str.strip('_').
Strip(s, c) == RStrip(LStrip(s, c), c)

Lower(s) == [i \in 1..Len(s) |-> LowerChar(s[i])]

make_scene_id(name) == Lower(Strip(SubNonAlnum(name), "_"))

-----------------------------------------------------------------------------
\* Directory scan.  A directory is a set of file names; the content of a
\* metadata file is represented by what parse_metadata makes of it.

TxtExt == <<".", "t", "x", "t">>
JpgExt == <<".", "j", "p", "g">>

EndsWith(s, suffix) ==
    Len(s) >= Len(suffix) /\ SubSeq(s, Len(s) - Len(suffix) + 1, Len(s)) = suffix

\* s < t for strings: lexicographic by code point.
RECURSIVE StrLess(_, _)
StrLess(s, t) ==
    IF t = <<>> THEN FALSE
    ELSE IF s = <<>> THEN TRUE
    ELSE IF Ord(Head(s)) # Ord(Head(t)) THEN Ord(Head(s)) < Ord(Head(t))
    ELSE StrLess(Tail(s), Tail(t))

\* sorted(os.listdir(data_dir)).
RECURSIVE Sorted(_)
Sorted(S) ==
    IF S = {} THEN <<>>
    ELSE LET m == CHOOSE x \in S : \A y \in S : x = y \/ StrLess(x, y)
         IN  <<m>> \o Sorted(S \ {m})

Vec(x, y, z) == <<Flt(x), Flt(y), Flt(z)>>
Quat(w, x, y, z) == <<Flt(w), Flt(x), Flt(y), Flt(z)>>
HalfQuat(w, x, y, z) == <<Half(w), Half(x), Half(y), Half(z)>>

\* parse_metadata: None (the empty sequence) when position or orientation
\* is missing, otherwise <<the parsed record>>.  The metadata files of the
\* directory have these contents.
parse_metadata(txt_path) ==
    CASE txt_path = <<"A">> \o TxtExt ->
             << [position |-> Vec(0, 0, 0), orientation |-> Quat(1, 0, 0, 0)] >>
      [] txt_path = <<"B">> \o TxtExt ->
             << [position |-> Vec(1, 0, 0), orientation |-> Quat(0, 0, 0, 1)] >>
      [] txt_path = <<"a">> \o TxtExt ->
             << [position |-> Vec(0, 1, 0), orientation |-> HalfQuat(1, 1, 1, 1)] >>
      [] txt_path = <<"a", " ", "b">> \o TxtExt ->
             << [position |-> Vec(1, 1, 0), orientation |-> Quat(1, 0, 0, 0)] >>
      [] txt_path = <<"a", "-", "b">> \o TxtExt ->
             << [position |-> Vec(1, 1, 0), orientation |-> HalfQuat(-1, 1, -1, 1)] >>
      [] OTHER -> <<>>

\* One round of the loop of scan_panoramas.
ScanFile(found, dir, fname) ==
    LET base == SubSeq(fname, 1, Len(fname) - 4)
        jpg_path == base \o JpgExt
        meta == parse_metadata(fname)
    IN  IF ~EndsWith(fname, TxtExt) THEN found
        ELSE IF jpg_path \notin dir THEN found
        ELSE IF meta = <<>> THEN found
        ELSE Append(found, [name |-> base, jpg_path |-> jpg_path,
                            position |-> meta[1].position,
                            orientation |-> meta[1].orientation])

\* The loop of scan_panoramas over the first k names of the sorted listing.
RECURSIVE ScanUpTo(_, _, _)
ScanUpTo(dir, listing, k) ==
    IF k = 0 THEN <<>>
    ELSE ScanFile(ScanUpTo(dir, listing, k - 1), dir, listing[k])

scan_panoramas(dir) == ScanUpTo(dir, Sorted(dir), Cardinality(dir))

-----------------------------------------------------------------------------
\* Tour configuration.  Of a hot spot the model keeps the computed fields
\* (yaw, the distance shown in the text, sceneId), of a scene entry the
\* north offset and the hot spots; the remaining fields are constants or
\* titles and paths.  round(x, 2) leaves a whole number of degrees as it is.

\* f'{dist:.1f}': the distance in tenths, rounded to the nearest.
FormatTenths(dist) ==
    LET n == dist.sqrt_of.n
        d == Pow2(dist.sqrt_of.e)
    IN  CHOOSE t \in 0..(20 * n + 1) :
            /\ (t = 0 \/ (2 * t - 1) * (2 * t - 1) * d <= 400 * n)
            /\ 400 * n < (2 * t + 1) * (2 * t + 1) * d

\* pano['scene_id'] = sid: the record gains (or has replaced) one field.
SetField(pano, field, value) ==
    [f \in DOMAIN pano \cup {field} |-> IF f = field THEN value ELSE pano[f]]

\* Faulty variant: the loop also stores a north_offset on the record.
AssignSceneIds_storing_north_offset(panoramas) ==
    [i \in 1..Len(panoramas) |->
        SetField(SetField(panoramas[i], "scene_id", make_scene_id(panoramas[i].name)),
                 "north_offset", 0)]

\* The first loop: every record gets its scene_id.
AssignSceneIds(panoramas) ==
    [i \in 1..Len(panoramas) |->
        SetField(panoramas[i], "scene_id", make_scene_id(panoramas[i].name))]

\* One hot spot: the dict appended at lines 213-223.
HotSpot(pano, other, yaw_offset) ==
    LET yaw == compute_hotspot_yaw(pano, other, yaw_offset)
        dist == compute_distance(pano, other)
    IN  [pitch |-> 0, yaw |-> yaw, dist_text |-> FormatTenths(dist),
         sceneId |-> other.scene_id]

\* Faulty variant: the hot spot links to the target's name, not its id.
AddHotSpot_linking_names(hotspots, panoramas, i, j, yaw_offset) ==
    IF i = j THEN hotspots
    ELSE Append(hotspots,
                [HotSpot(panoramas[i], panoramas[j], yaw_offset)
                    EXCEPT !.sceneId = panoramas[j].name])

\* One round of the inner loop: the pair (i, i) is skipped, any other
\* target is appended.
AddHotSpot(hotspots, panoramas, i, j, yaw_offset) ==
    IF i = j THEN hotspots
    ELSE Append(hotspots, HotSpot(panoramas[i], panoramas[j], yaw_offset))

\* The inner loop of generate_tour_config for source index i, over the
\* targets of index 1..j.
RECURSIVE HotSpotsUpTo(_, _, _, _)
HotSpotsUpTo(panoramas, i, j, yaw_offset) ==
    IF j = 0 THEN <<>>
    ELSE AddHotSpot(HotSpotsUpTo(panoramas, i, j - 1, yaw_offset),
                    panoramas, i, j, yaw_offset)

\* scenes[sid] = {...}: replaces an entry stored earlier under the same sid.
StoreScene(scenes, panoramas, k, yaw_offset) ==
    LET pano == panoramas[k]
        sid == pano.scene_id
        entry == [northOffset |-> compute_north_offset(pano),
                  hotSpots |-> HotSpotsUpTo(panoramas, k, Len(panoramas), yaw_offset)]
    IN  [s \in DOMAIN scenes \cup {sid} |-> IF s = sid THEN entry ELSE scenes[s]]

\* The outer loop over the first k records.
RECURSIVE ScenesUpTo(_, _, _)
ScenesUpTo(panoramas, k, yaw_offset) ==
    IF k = 0 THEN <<>>
    ELSE StoreScene(ScenesUpTo(panoramas, k - 1, yaw_offset), panoramas, k, yaw_offset)

\* Faulty variant: the last id instead of the first.
FirstScene_last(scene_ids) ==
    IF scene_ids # <<>> THEN <<scene_ids[Len(scene_ids)]>> ELSE <<>>

\* first_scene: None is the empty sequence, a present value v is <<v>>.
FirstScene(scene_ids) == IF scene_ids # <<>> THEN <<scene_ids[1]>> ELSE <<>>

\* The dict returned by generate_tour_config, built from the records that
\* carry their scene_id.
TourConfig(panos, offset) ==
    LET scene_ids == [i \in 1..Len(panos) |-> panos[i].scene_id]
    IN  [default |-> [firstScene |-> FirstScene(scene_ids)],
         scenes |-> ScenesUpTo(panos, Len(panos), offset)]

-----------------------------------------------------------------------------
\* Inputs.

\* The files a data directory may hold.
DirFiles ==
    { <<"A">> \o TxtExt, <<"A">> \o JpgExt, <<"B">> \o TxtExt, <<"B">> \o JpgExt,
      <<"a">> \o TxtExt, <<"a">> \o JpgExt,
      <<"a", " ", "b">> \o TxtExt, <<"a", " ", "b">> \o JpgExt,
      <<"a", "-", "b">> \o TxtExt, <<"a", "-", "b">> \o JpgExt,
      <<"b">> \o TxtExt, <<"b">> \o JpgExt }

Directories ==
    { d \in SUBSET DirFiles :
        Cardinality({f \in d : EndsWith(f, TxtExt)}) <= MaxScenes }

\* Scene records a caller may pass to generate_tour_config directly.
Scene(name, position, orientation) ==
    [name |-> name, jpg_path |-> name \o JpgExt,
     position |-> position, orientation |-> orientation]

CallerScenes ==
    { Scene(<<"a">>, Vec(0, 0, 0), Quat(1, 0, 0, 0)),
      Scene(<<"A">>, Vec(1, 0, 0), Quat(0, 0, 0, 1)),
      Scene(<<"b", "1">>, Vec(0, 1, 0), HalfQuat(-1, 1, -1, 1)),
      Scene(<<"b", "_", "1">>, Vec(0, 1, 0), Quat(1, 0, 0, 1)),
      Scene(<<"-">>, Vec(1, 1, 1), HalfQuat(1, 1, 1, 1)) }

SeqsUpTo(S, n) == UNION { [1..k -> S] : k \in 0..n }

YawOffsets == {0, 90, -180, 360}

Positions ==
    { Vec(0, 0, 0), Vec(1, 0, 0), Vec(0, 1, 0), Vec(1, 1, 0), Vec(0, 0, 1), Vec(1, 1, 1) }

Orientations ==
    { Quat(1, 0, 0, 0), Quat(-1, 0, 0, 0), Quat(0, 1, 0, 0), Quat(0, 0, 1, 0),
      Quat(0, 0, 0, 1), HalfQuat(1, 1, 1, 1), HalfQuat(-1, 1, -1, 1),
      HalfQuat(1, -1, -1, -1), Quat(1, 0, 0, 1), Quat(1, 1, 0, 0), Quat(0, 0, 0, 0) }

Vectors ==
    { Vec(0, 0, 0), Vec(1, 0, 0), Vec(0, 1, 0), Vec(0, 0, 1), Vec(1, -1, 0),
      Vec(-1, 2, 1), <<Half(1), Half(-3), Flt(2)>> }

-----------------------------------------------------------------------------
\* State.

VARIABLES
    caller,      \* "main": the command line; "direct": a caller of generate_tour_config
    pc,          \* position of the run
    dir,         \* the files of data_dir
    panoramas,   \* the scene records
    yaw_offset,  \* --yaw-offset, in degrees
    tour_config, \* the returned configuration
    g_op,        \* geometry call: the function applied last
    g_a, g_b,    \* geometry call: source and target scene
    g_q, g_v,    \* geometry call: quaternion and vector
    g_ret        \* geometry call: the value returned

vars == <<caller, pc, dir, panoramas, yaw_offset, tour_config,
          g_op, g_a, g_b, g_q, g_v, g_ret>>
tourVars == <<caller, pc, dir, panoramas, yaw_offset, tour_config>>
geomVars == <<g_op, g_a, g_b, g_q, g_v, g_ret>>

NoConfig == [default |-> [firstScene |-> <<>>], scenes |-> <<>>]

GeomIdle ==
    /\ g_op = "none"
    /\ g_a = Scene(<<"a">>, Vec(0, 0, 0), Quat(1, 0, 0, 0))
    /\ g_b = g_a
    /\ g_q = Quat(1, 0, 0, 0)
    /\ g_v = Vec(0, 0, 0)
    /\ g_ret = 0

TourIdle ==
    /\ caller = "none"
    /\ pc = "idle"
    /\ dir = {}
    /\ panoramas = <<>>
    /\ tour_config = NoConfig

\* main() before the scan, or a caller about to call generate_tour_config.
Init ==
    /\ GeomIdle
    /\ caller \in {"main", "direct"}
    /\ pc = "start"
    /\ yaw_offset \in YawOffsets
    /\ tour_config = NoConfig
    /\ IF caller = "main"
       THEN dir \in Directories /\ panoramas = <<>>
       ELSE dir = {} /\ panoramas \in SeqsUpTo(CallerScenes, MaxScenes)

\* Faulty variant: main does not test the scan result.
NoPanoramas_unchecked(found) == FALSE

\* if not panoramas: (main)
NoPanoramas(found) == found = <<>>

\* main: the scan finds no pair; "Error: No panorama pairs found", exit 1.
MainScanEmpty ==
    /\ caller = "main" /\ pc = "start"
    /\ NoPanoramas(scan_panoramas(dir))
    /\ panoramas' = scan_panoramas(dir)
    /\ pc' = "exit_1"
    /\ UNCHANGED <<caller, dir, yaw_offset, tour_config>>
    /\ UNCHANGED geomVars

\* main: the scan finds panoramas.
MainScanFound ==
    /\ caller = "main" /\ pc = "start"
    /\ ~NoPanoramas(scan_panoramas(dir))
    /\ panoramas' = scan_panoramas(dir)
    /\ pc' = "scanned"
    /\ UNCHANGED <<caller, dir, yaw_offset, tour_config>>
    /\ UNCHANGED geomVars

\* generate_tour_config(panoramas, ..., yaw_offset): the first loop stores
\* scene_id on the caller's records, the second builds the returned dict
\* from the records so changed.
generate_tour_config ==
    /\ panoramas' = AssignSceneIds(panoramas)
    /\ tour_config' = TourConfig(panoramas', yaw_offset)

\* main: generate_tour_config on the scanned records (then write_tour_html,
\* which only serialises the result).
MainGenerate ==
    /\ caller = "main" /\ pc = "scanned"
    /\ generate_tour_config
    /\ pc' = "done"
    /\ UNCHANGED <<caller, dir, yaw_offset>>
    /\ UNCHANGED geomVars

\* A direct call of generate_tour_config.
DirectCall ==
    /\ caller = "direct" /\ pc = "start"
    /\ generate_tour_config
    /\ pc' = "done"
    /\ UNCHANGED <<caller, dir, yaw_offset>>
    /\ UNCHANGED geomVars

Next == MainScanEmpty \/ MainScanFound \/ MainGenerate \/ DirectCall

Spec == Init /\ [][Next]_vars

-----------------------------------------------------------------------------
\* The geometry functions applied to drawn inputs.

GeomInit ==
    /\ TourIdle
    /\ yaw_offset \in YawOffsets \cup {45, -90, 180}
    /\ g_op = "none"
    /\ g_ret = 0
    /\ \E pa \in Positions, pb \in Positions, qa \in Orientations :
          /\ g_a = Scene(<<"a">>, pa, qa)
          /\ g_b = Scene(<<"b">>, pb, Quat(1, 0, 0, 0))
          /\ g_q = qa
    /\ g_v \in Vectors

GeomYaw ==
    /\ g_op = "none"
    /\ g_op' = "yaw"
    /\ g_ret' = compute_hotspot_yaw(g_a, g_b, yaw_offset)
    /\ UNCHANGED <<g_a, g_b, g_q, g_v>>
    /\ UNCHANGED tourVars

GeomDistance ==
    /\ g_op = "none"
    /\ g_op' = "distance"
    /\ g_ret' = compute_distance(g_a, g_b)
    /\ UNCHANGED <<g_a, g_b, g_q, g_v>>
    /\ UNCHANGED tourVars

GeomNorthOffset ==
    /\ g_op = "none"
    /\ g_op' = "north_offset"
    /\ g_ret' = compute_north_offset(g_a)
    /\ UNCHANGED <<g_a, g_b, g_q, g_v>>
    /\ UNCHANGED tourVars

\* quat_rotate(q, v)
GeomRotate ==
    /\ g_op = "none"
    /\ g_op' = "rotate"
    /\ g_ret' = quat_rotate(g_q, g_v)
    /\ UNCHANGED <<g_a, g_b, g_q, g_v>>
    /\ UNCHANGED tourVars

\* quat_rotate(quat_conjugate(q), .) applied to the rotated vector.
GeomRotateBack ==
    /\ g_op = "rotate"
    /\ g_op' = "rotate_back"
    /\ g_ret' = quat_rotate(quat_conjugate(g_q), g_ret)
    /\ UNCHANGED <<g_a, g_b, g_q, g_v>>
    /\ UNCHANGED tourVars

GeomNext == GeomYaw \/ GeomDistance \/ GeomNorthOffset \/ GeomRotate \/ GeomRotateBack

SpecGeom == GeomInit /\ [][GeomNext]_vars

\* The rotation alone: quat_rotate and its inverse on the drawn q and v.
RotateNext == GeomRotate \/ GeomRotateBack

SpecRotate == GeomInit /\ [][RotateNext]_vars

-----------------------------------------------------------------------------
\* Properties of the tour configuration (specification Spec).

Returned == pc = "done"
Scenes == tour_config.scenes
EntryScene == tour_config.default.firstScene
SceneIds == [i \in 1..Len(panoramas) |-> panoramas[i].scene_id]
Targets(hotSpots) == [k \in 1..Len(hotSpots) |-> hotSpots[k].sceneId]
RemoveAt(seq, i) == SubSeq(seq, 1, i - 1) \o SubSeq(seq, i + 1, Len(seq))

C2_CompleteGraphSize ==
    (Returned /\ Len(panoramas) >= 1)
       => /\ Cardinality(DOMAIN Scenes) = Len(panoramas)
          /\ \A s \in DOMAIN Scenes :
                Len(Scenes[s].hotSpots) = Len(panoramas) - 1

\* C3: no hot spot of a scene entry targets the scene that owns the list.
C3_NoSelfEdge ==
    Returned =>
       \A s \in DOMAIN Scenes :
          \A k \in 1..Len(Scenes[s].hotSpots) : Scenes[s].hotSpots[k].sceneId # s

\* C4: the hot spots of the scene at input index i target the scenes of
\* the input sequence with index i removed, in input order.
C4_EdgesInInputOrder ==
    Returned =>
       \A i \in 1..Len(panoramas) :
          Targets(Scenes[SceneIds[i]].hotSpots) = RemoveAt(SceneIds, i)

\* C5: for a non-empty input, firstScene is the id of the first input scene.
C5_EntryIsFirstScene ==
    (Returned /\ Len(panoramas) >= 1)
       => EntryScene = <<make_scene_id(panoramas[1].name)>>

\* Several scenes, a yaw offset, and a last scene whose id differs.
C5_Witness ==
    /\ Returned /\ Len(panoramas) >= 2 /\ yaw_offset # 0
    /\ EntryScene # <<SceneIds[Len(panoramas)]>>

\* C9 (as stated): the call leaves position, orientation and the set of
\* fields of every input record unchanged, north_offset excepted.
C9_InputsUnchanged ==
    [][(pc # "done" /\ pc' = "done")
         => /\ Len(panoramas') = Len(panoramas)
            /\ \A i \in 1..Len(panoramas) :
                  /\ panoramas'[i].position = panoramas[i].position
                  /\ panoramas'[i].orientation = panoramas[i].orientation
                  /\ DOMAIN panoramas'[i] \ {"north_offset"}
                        = DOMAIN panoramas[i] \ {"north_offset"}]_vars

\* C9 (amended): the call leaves name, path, position and orientation of
\* every input record unchanged; the one change is that every record gains
\* the field scene_id, holding make_scene_id of its name; no north_offset
\* is stored on the record.
C9_OnlySceneIdAdded ==
    [][(pc # "done" /\ pc' = "done")
         => /\ Len(panoramas') = Len(panoramas)
            /\ \A i \in 1..Len(panoramas) :
                  /\ DOMAIN panoramas'[i] = DOMAIN panoramas[i] \cup {"scene_id"}
                  /\ \A f \in DOMAIN panoramas[i] \ {"scene_id"} :
                        panoramas'[i][f] = panoramas[i][f]
                  /\ panoramas'[i].scene_id = make_scene_id(panoramas[i].name)]_vars

\* A returned call whose records carry scene_id and no north_offset.
C9_Witness ==
    /\ Returned /\ Len(panoramas) >= 2
    /\ \A i \in 1..Len(panoramas) :
          "scene_id" \in DOMAIN panoramas[i] /\ "north_offset" \notin DOMAIN panoramas[i]

\* C10: for a non-empty input, firstScene and the sceneId of every hot spot
\* are keys of the returned scenes mapping.
C10_NoDanglingId ==
    (Returned /\ Len(panoramas) >= 1)
       => /\ EntryScene # <<>> /\ EntryScene[1] \in DOMAIN Scenes
          /\ \A s \in DOMAIN Scenes :
                \A k \in 1..Len(Scenes[s].hotSpots) :
                   Scenes[s].hotSpots[k].sceneId \in DOMAIN Scenes

\* Three scenes, two of which derive the same id.
C10_Witness ==
    /\ Returned /\ Len(panoramas) >= 3
    /\ Cardinality(DOMAIN Scenes) = Len(panoramas) - 1

-----------------------------------------------------------------------------
\* Properties of the geometry functions (specifications SpecGeom and
\* SpecRotate).

SamePosition == VecEq(g_a.position, g_b.position)
IsUnit(q) ==
    FEq(FAdd(FAdd(FAdd(FMul(q[1], q[1]), FMul(q[2], q[2])), FMul(q[3], q[3])),
             FMul(q[4], q[4])), Flt(1))

\* C6 (as stated): compute_hotspot_yaw returns a value in (-180, 180].
C6_YawHalfOpenAbove == g_op = "yaw" => (-180 < g_ret /\ g_ret <= 180)

\* C6 (amended): compute_hotspot_yaw returns a value in [-180, 180]; the
\* lower end -180 is returned, for a target straight behind the camera.
C6_YawInClosedRange == g_op = "yaw" => (-180 <= g_ret /\ g_ret <= 180)

\* The yaw of a target at another position, without offset, is -180.
C6_Witness ==
    g_op = "yaw" /\ g_ret = -180 /\ yaw_offset = 0 /\ ~SamePosition

\* C7: for a unit quaternion q and a vector v,
\* quat_rotate(quat_conjugate(q), quat_rotate(q, v)) equals v.
C7_RotationRoundTrip ==
    (g_op = "rotate_back" /\ IsUnit(g_q)) => VecEq(g_ret, g_v)

\* A round trip through a unit quaternion that moves the vector.
C7_Witness ==
    /\ g_op = "rotate_back" /\ IsUnit(g_q)
    /\ ~VecEq(quat_rotate(g_q, g_v), g_v)
    /\ VecEq(g_ret, g_v)

\* C8: for two scenes at the same position, whatever the orientation,
\* compute_distance returns 0 and, with yaw_offset 0, compute_hotspot_yaw
\* returns 0.
C8_DegenerateIsZero ==
    /\ (g_op = "distance" /\ SamePosition) => g_ret.sqrt_of.n = 0
    /\ (g_op = "yaw" /\ SamePosition /\ yaw_offset = 0) => g_ret = 0

====
